---- MODULE Spec2Model ----
(***************************************************************************)
(* SentimentAnalysisChain (langchain/chains/sentimental_analysis/base.py). *)
(*                                                                         *)
(* Python strings that the code inspects character by character (the model *)
(* output, labels, numerals, output_format) are sequences of one-character *)
(* strings.  Strings the code only passes around (the input texts, the     *)
(* dictionary keys) are TLA+ strings.                                      *)
(*                                                                         *)
(* Python values that _call can return are tagged records:                 *)
(*   [type |-> "dict", val |-> f]   a dict, f a function on its keys       *)
(*   [type |-> "str",  val |-> s]   a str, s its characters                *)
(*   [type |-> "list", val |-> q]   a list, q a sequence of tagged values  *)
(*   [type |-> "None", val |-> <<>>]                                       *)
(***************************************************************************)
EXTENDS Integers, Sequences, FiniteSets, TLC

VARIABLES
    cfg,      \* the chain's fields (lines 36-48), set by the constructor
    built,    \* how the chain was constructed: cls(...) or from_llm(...)
    pc,       \* "idle", or how the last call ended: "returned" / "raised"
    op,       \* the method last called: "none", "_call", "process_llm_results"
    inputs,   \* inputs[self.input_key] of the last _call (tagged value)
    ret,      \* the value the last call returned (tagged value)
    err,      \* the exception the last call raised
    invoked,  \* the texts given to llm_chain.predict during the last _call
    events,   \* the run_manager.on_text events of the last _call
    first     \* the first completed _call on this chain: its input and outcome

vars == <<cfg, built, pc, op, inputs, ret, err, invoked, events, first>>

-----------------------------------------------------------------------------
(* Bounds *)

\* longest list given to _call in batch mode
MaxBatch == 3

-----------------------------------------------------------------------------
(* Characters and strings *)

UpperCase == <<"A","B","C","D","E","F","G","H","I","J","K","L","M",
               "N","O","P","Q","R","S","T","U","V","W","X","Y","Z">>
LowerCase == <<"a","b","c","d","e","f","g","h","i","j","k","l","m",
               "n","o","p","q","r","s","t","u","v","w","x","y","z">>
Digits == <<"0","1","2","3","4","5","6","7","8","9">>

Range(q) == {q[i] : i \in DOMAIN q}

DigitChars == Range(Digits)
WordChars == Range(UpperCase) \cup Range(LowerCase) \cup Range(Digits) \cup {"_"}

\* \d of the pattern (ASCII)
IsDigit(c) == c \in DigitChars

\* \w of the pattern: letters, digits and the underscore (ASCII)
IsWordChar(c) == c \in WordChars

\* [\d.] of the pattern
IsScoreChar(c) == IsDigit(c) \/ c = "."

\* str.lower(), one character
LowerChar(c) ==
    IF \E i \in DOMAIN UpperCase : UpperCase[i] = c
    THEN LowerCase[CHOOSE i \in DOMAIN UpperCase : UpperCase[i] = c]
    ELSE c

\* str.lower()
Lower(s) == [i \in DOMAIN s |-> LowerChar(s[i])]

\* s has the literal lit at position i
HasAt(s, i, lit) ==
    /\ i + Len(lit) - 1 <= Len(s)
    /\ \A k \in DOMAIN lit : s[i + k - 1] = lit[k]

-----------------------------------------------------------------------------
(* The pattern of _process_single_input:                                   *)
(*     Sentiment: (\w+) \(Score: ([\d.]+)\)                                *)

SentimentLit == <<"S","e","n","t","i","m","e","n","t",":"," ">>
ScoreLit == <<" ","(","S","c","o","r","e",":"," ">>
CloseLit == <<")">>

NoMatch == [found |-> FALSE, label |-> <<>>, score |-> <<>>]

\* the end of the longest run of word characters of s that starts at i
\* (i - 1 when s[i] is no word character): the greedy \w+
RECURSIVE WordRunEnd(_, _)
WordRunEnd(s, i) ==
    IF i <= Len(s) /\ IsWordChar(s[i]) THEN WordRunEnd(s, i + 1) ELSE i - 1

\* the same for the greedy [\d.]+
RECURSIVE ScoreRunEnd(_, _)
ScoreRunEnd(s, i) ==
    IF i <= Len(s) /\ IsScoreChar(s[i]) THEN ScoreRunEnd(s, i + 1) ELSE i - 1

\* the match of the strict pattern that starts at position i of s, if any.
\* Both groups are greedy, and the character after each group must be one
\* the group cannot take, so giving characters back never helps: the longest
\* run is the only candidate.
MatchStrictAt(s, i) ==
    IF ~HasAt(s, i, SentimentLit) THEN NoMatch
    ELSE LET a == i + Len(SentimentLit)
             b == WordRunEnd(s, a)
         IN  IF b < a \/ ~HasAt(s, b + 1, ScoreLit) THEN NoMatch
             ELSE LET c == b + 1 + Len(ScoreLit)
                      d == ScoreRunEnd(s, c)
                  IN  IF d < c \/ ~HasAt(s, d + 1, CloseLit) THEN NoMatch
                      ELSE [found |-> TRUE,
                            label |-> SubSeq(s, a, b),
                            score |-> SubSeq(s, c, d)]

\* sentiment_pattern.search(llm_output), line 117-118: the leftmost match
RECURSIVE SearchStrictFrom(_, _)
SearchStrictFrom(s, i) ==
    IF i > Len(s) THEN NoMatch
    ELSE LET m == MatchStrictAt(s, i)
         IN  IF m.found THEN m ELSE SearchStrictFrom(s, i + 1)

\* a search that keeps the rightmost match instead of the leftmost
RECURSIVE SearchStrictLastFrom(_, _)
SearchStrictLastFrom(s, i) ==
    IF i < 1 THEN NoMatch
    ELSE LET m == MatchStrictAt(s, i)
         IN  IF m.found THEN m ELSE SearchStrictLastFrom(s, i - 1)

SearchStrictLast(s) == SearchStrictLastFrom(s, Len(s))

SearchStrict(s) == SearchStrictFrom(s, 1)

-----------------------------------------------------------------------------
(* The pattern of process_llm_results:                                     *)
(*     Sentiment: (.+?) \(Score: ([\d.]+)\)                                *)

\* the shortest label (.+?, no newline) starting at a and ending at b or
\* later that the rest of the pattern accepts
RECURSIVE MatchLooseLabel(_, _, _)
MatchLooseLabel(s, a, b) ==
    IF b > Len(s) \/ s[b] = "\n" THEN NoMatch
    ELSE LET c == b + 1 + Len(ScoreLit)
             d == ScoreRunEnd(s, c)
         IN  IF HasAt(s, b + 1, ScoreLit) /\ d >= c /\ HasAt(s, d + 1, CloseLit)
             THEN [found |-> TRUE,
                   label |-> SubSeq(s, a, b),
                   score |-> SubSeq(s, c, d)]
             ELSE MatchLooseLabel(s, a, b + 1)

MatchLooseAt(s, i) ==
    IF ~HasAt(s, i, SentimentLit) THEN NoMatch
    ELSE MatchLooseLabel(s, i + Len(SentimentLit), i + Len(SentimentLit))

\* sentiment_pattern.search(text), line 152-153
RECURSIVE SearchLooseFrom(_, _)
SearchLooseFrom(s, i) ==
    IF i > Len(s) THEN NoMatch
    ELSE LET m == MatchLooseAt(s, i)
         IN  IF m.found THEN m ELSE SearchLooseFrom(s, i + 1)

SearchLoose(s) == SearchLooseFrom(s, 1)

-----------------------------------------------------------------------------
(* str.strip() and float()                                                 *)

IsSpace(c) == c \in {" ", "\t", "\n", "\r"}

RECURSIVE StripLeft(_)
StripLeft(s) == IF s # <<>> /\ IsSpace(Head(s)) THEN StripLeft(Tail(s)) ELSE s

RECURSIVE StripRight(_)
StripRight(s) ==
    IF s # <<>> /\ IsSpace(s[Len(s)]) THEN StripRight(SubSeq(s, 1, Len(s) - 1)) ELSE s

\* str.strip()
Strip(s) == StripRight(StripLeft(s))

DigitValue(c) == (CHOOSE i \in DOMAIN Digits : Digits[i] = c) - 1

RECURSIVE Pow10(_)
Pow10(n) == IF n = 0 THEN 1 ELSE 10 * Pow10(n - 1)

\* the number a run of digits denotes (0 for the empty run)
RECURSIVE DigitsValue(_)
DigitsValue(s) ==
    IF s = <<>> THEN 0
    ELSE 10 * DigitsValue(SubSeq(s, 1, Len(s) - 1)) + DigitValue(s[Len(s)])

\* m / 10^e with the trailing zeros of the fraction removed
RECURSIVE Normalize(_, _)
Normalize(m, e) ==
    IF e > 0 /\ m % 10 = 0 THEN Normalize(m \div 10, e - 1) ELSE [m |-> m, e |-> e]

DotCount(s) == Cardinality({i \in DOMAIN s : s[i] = "."})
DigitCount(s) == Cardinality({i \in DOMAIN s : IsDigit(s[i])})

\* float(s) accepts s, a string of digits and dots: at most one dot and at
\* least one digit ("1", "1.", ".5", "0.87"; not ".", "1.2.3")
FloatAccepts(s) == DotCount(s) <= 1 /\ DigitCount(s) >= 1

\* float(s) for an accepted s: the decimal m / 10^e, normalised.  Exact for
\* numerals of up to 15 significant digits, which a float64 holds.
Float(s) ==
    LET digits == SelectSeq(s, IsDigit)
        dot == IF DotCount(s) = 0 THEN Len(s) + 1
               ELSE CHOOSE i \in DOMAIN s : s[i] = "."
    IN  Normalize(DigitsValue(digits), Len(s) - dot + (IF DotCount(s) = 0 THEN 1 ELSE 0))

\* str(n) for a natural number n
RECURSIVE NatStr(_)
NatStr(n) == IF n < 10 THEN <<Digits[n + 1]>> ELSE NatStr(n \div 10) \o <<Digits[(n % 10) + 1]>>

\* the e digits of the fraction n / 10^e, leading zeros kept
RECURSIVE FracStr(_, _)
FracStr(n, e) == IF e = 0 THEN <<>> ELSE FracStr(n \div 10, e - 1) \o <<Digits[(n % 10) + 1]>>

\* str(x) of a float x: "0.87", "1.0", "0.5".  (Fixed notation: Python uses
\* it for 1e-4 <= x < 1e16.)
FloatStr(x) ==
    IF x.e = 0 THEN NatStr(x.m) \o <<".", "0">>
    ELSE NatStr(x.m \div Pow10(x.e)) \o <<".">> \o FracStr(x.m % Pow10(x.e), x.e)

-----------------------------------------------------------------------------
(* Exceptions *)

NoError == [type |-> "none", msg |-> <<>>]

\* ValueError(f"Unsupported output format: {self.output_format}"), line 145
UnsupportedLit == <<"U","n","s","u","p","p","o","r","t","e","d"," ","o","u","t","p","u","t"," ","f","o","r","m","a","t",":"," ">>
UnsupportedFormat(fmt) == [type |-> "ValueError", msg |-> UnsupportedLit \o fmt]

\* the ValueError of float(), line 122 and 156
FloatErrorLit == <<"c","o","u","l","d"," ","n","o","t"," ","c","o","n","v","e","r","t"," ","s","t","r","i","n","g"," ","t","o"," ","f","l","o","a","t",":"," ">>
FloatError(s) == [type |-> "ValueError", msg |-> FloatErrorLit \o <<"'">> \o s \o <<"'">>]

\* None.get(...), line 125 and 159
NoneGetLit == <<"'","N","o","n","e","T","y","p","e","'"," ","o","b","j","e","c","t"," ","h","a","s"," ","n","o"," ","a","t","t","r","i","b","u","t","e"," ","'","g","e","t","'">>
NoneGetError == [type |-> "AttributeError", msg |-> NoneGetLit]

\* whatever llm_chain.predict raises
PredictError == [type |-> "LLMError", msg |-> <<>>]

-----------------------------------------------------------------------------
(* Python values *)

PyNone == [type |-> "None", val |-> <<>>]
PyStr(s) == [type |-> "str", val |-> s]
PyDict(f) == [type |-> "dict", val |-> f]
PyList(q) == [type |-> "list", val |-> q]

EmptyDict == [k \in {} |-> k]

\* d.get(key, default)
DictGet(d, key, default) == IF key \in DOMAIN d THEN d[key] ELSE default

-----------------------------------------------------------------------------
(* The language model: a deterministic stand-in for llm_chain.predict.     *)
(* Each text has one fixed answer, or the call fails.                      *)

Positive == <<"P","o","s","i","t","i","v","e">>
Negative == <<"N","e","g","a","t","i","v","e">>
Neutral == <<"N","e","u","t","r","a","l">>
POS == <<"P","O","S">>
NEG == <<"N","E","G">>

Sentence(label, score) == SentimentLit \o label \o ScoreLit \o score \o CloseLit

\* "Sentiment: Positive (Score: 0.87)"
GreatOutput == Sentence(Positive, <<"0",".","8","7">>)
\* "OK. Sentiment: Negative (Score: 1) Sentiment: Positive (Score: 0.5)"
AwfulOutput ==
    <<"O","K","."," ">> \o Sentence(Negative, <<"1">>) \o <<" ">>
        \o Sentence(Positive, <<"0",".","5">>)
\* "Sentiment: Mixed feelings (Score: 0.5)"
SoSoOutput == Sentence(<<"M","i","x","e","d"," ","f","e","e","l","i","n","g","s">>, <<"0",".","5">>)
\* "Sentiment: Neutral (Score: 1.2.3) Sentiment: Positive (Score: 0.9)"
GarbledOutput ==
    Sentence(Neutral, <<"1",".","2",".","3">>) \o <<" ">>
        \o Sentence(Positive, <<"0",".","9">>)

Texts == {"great", "awful", "so-so", "garbled", "down"}

\* self.llm_chain.predict(question=text, ...), line 108-110
Predict(text) ==
    CASE text = "great"   -> [ok |-> TRUE, out |-> GreatOutput]
      [] text = "awful"   -> [ok |-> TRUE, out |-> AwfulOutput]
      [] text = "so-so"   -> [ok |-> TRUE, out |-> SoSoOutput]
      [] text = "garbled" -> [ok |-> TRUE, out |-> GarbledOutput]
      [] text = "down"    -> [ok |-> FALSE, out |-> <<>>]

\* the texts the model answers
Answered == {t \in Texts : Predict(t).ok}

\* sentiment_pattern.search(llm_output), line 117-118, for the model's answer
\* to each text (the answer to a text is fixed, so the search is done once)
StrictMatchOf == [t \in Answered |-> SearchStrict(Predict(t).out)]

\* sentiment_pattern.search(text), line 152-153, for the model's answer to
\* each text
LooseMatchOf == [t \in Answered |-> SearchLoose(Predict(t).out)]

-----------------------------------------------------------------------------
(* Construction *)

JsonFormat == <<"j","s","o","n">>
TextFormat == <<"t","e","x","t">>

\* the class's field defaults, line 36-48
FieldDefaults ==
    [input_key |-> "question",
     output_key |-> "sentiment",
     include_score |-> TRUE,
     output_format |-> JsonFormat,
     sentiment_label_mapping |-> PyDict(EmptyDict),
     batch_processing |-> FALSE]

\* cls(**kwargs): a field takes the keyword given for it, else its default
Construct(kwargs) ==
    [f \in DOMAIN FieldDefaults |->
        IF f \in DOMAIN kwargs THEN kwargs[f] ELSE FieldDefaults[f]]

\* the parameter defaults of from_llm, line 181-184
FromLLMDefaults ==
    [include_score |-> FALSE,
     output_format |-> JsonFormat,
     sentiment_label_mapping |-> PyNone,
     batch_processing |-> FALSE]

\* from_llm(llm, **args), line 177-201: its own parameters are passed on to
\* cls explicitly, given or not; any other keyword goes through **kwargs
FromLLM(args) ==
    Construct([f \in DOMAIN FromLLMDefaults \cup DOMAIN args |->
                  IF f \in DOMAIN args THEN args[f] ELSE FromLLMDefaults[f]])

\* the keyword arguments a chain is built with: each one given or left out
OptArg(name, values) == {EmptyDict} \cup {name :> v : v \in values}

LabelMappings ==
    {EmptyDict,
     Positive :> POS,
     (Positive :> Negative) @@ (Negative :> NEG)}

OutputFormats == {<<"T","e","x","t">>, <<"x","m","l">>}

ConstructorArgs ==
    {k @@ i @@ f @@ m @@ b :
        k \in OptArg("output_key", {"result"}),
        i \in OptArg("include_score", BOOLEAN),
        f \in OptArg("output_format", OutputFormats),
        m \in OptArg("sentiment_label_mapping", {PyDict(d) : d \in LabelMappings}),
        b \in OptArg("batch_processing", {TRUE})}

-----------------------------------------------------------------------------
(* _process_single_input, line 100-149 *)

LabelLineLit == <<"S","e","n","t","i","m","e","n","t"," ","L","a","b","e","l",":"," ">>
ScoreLineLit == <<"\n","S","e","n","t","i","m","e","n","t"," ","S","c","o","r","e",":"," ">>

Returns(v, evs, calls) ==
    [raised |-> FALSE, ret |-> v, err |-> NoError, events |-> evs, invoked |-> calls]
Raises(e, evs, calls) ==
    [raised |-> TRUE, ret |-> PyNone, err |-> e, events |-> evs, invoked |-> calls]

\* a lookup that is repeated on the mapped label
ApplyLabelMappingTwice(mapping, label) ==
    DictGet(mapping, DictGet(mapping, label, label), DictGet(mapping, label, label))

\* self.sentiment_label_mapping.get(sentiment_label, sentiment_label),
\* line 125-127 and 159-161, for a mapping that is a dict
ApplyLabelMapping(mapping, label) == DictGet(mapping, label, label)

\* the dict built at line 129-132
SentimentDict(label, score) ==
    ("sentiment_label" :> label) @@ ("sentiment_score" :> score)

\* line 140-145: the value returned, or the error raised, for a sentiment
FormatSentiment(c, sentiment, evs, calls) ==
    IF Lower(c.output_format) = JsonFormat
    THEN Returns(PyDict(c.output_key :> sentiment), evs, calls)
    ELSE IF Lower(c.output_format) = TextFormat
    THEN Returns(PyStr(LabelLineLit \o sentiment["sentiment_label"]
                       \o ScoreLineLit \o FloatStr(sentiment["sentiment_score"])),
                 evs, calls)
    ELSE Raises(UnsupportedFormat(c.output_format), evs, calls)

\* a miss that returns the empty dict itself, not keyed
NoSentimentBare(c) == PyDict(EmptyDict)

\* line 147-149: the value returned when the pattern does not match
NoSentiment(c) == PyDict(c.output_key :> EmptyDict)

\* line 120-145: the pattern matched
ProcessMatch(c, m, evs, calls) ==
    LET label == Strip(m.label)
        score == Strip(m.score)
    IN  IF ~FloatAccepts(score) THEN Raises(FloatError(score), evs, calls)
        ELSE IF c.sentiment_label_mapping.type = "None"
        THEN Raises(NoneGetError, evs, calls)
        ELSE FormatSentiment(
                 c,
                 SentimentDict(ApplyLabelMapping(c.sentiment_label_mapping.val, label),
                               Float(score)),
                 evs, calls)

\* run_manager.on_text(...), line 88, 105 and 111: the event of showing the
\* inputs, a text, or the model's answer to a text (recorded by the text it
\* answers).  The chain's verbose flag is off, so line 134-138 emit nothing.
OnText(what, v) == [what |-> what, of |-> v]

\* the whole procedure for one text: what it returns or raises, the on_text
\* payloads it emits and the texts it gives to the model
ProcessSingleInput(c, text) ==
    LET p == Predict(text)
    IN  IF ~p.ok THEN Raises(PredictError, <<OnText("text", text)>>, <<text>>)
        ELSE LET evs == <<OnText("text", text), OnText("llm_output", text)>>
                 m == StrictMatchOf[text]
             IN  IF m.found THEN ProcessMatch(c, m, evs, <<text>>)
                 ELSE Returns(NoSentiment(c), evs, <<text>>)

-----------------------------------------------------------------------------
(* _call, line 82-98 *)

\* a results list that is kept between calls: the next batch appends to the
\* list the last one returned
StaleResults == IF ret.type = "list" THEN ret.val ELSE <<>>

\* the list that the comprehension of line 92-95 fills: a new one per call
NewResults == <<>>

\* line 92-95: the comprehension over the texts from position i on, acc the
\* outcome so far.  An element that raises ends the comprehension.
RECURSIVE ProcessBatch(_, _, _, _)
ProcessBatch(c, texts, i, acc) ==
    IF i > Len(texts) THEN Returns(PyList(acc.ret), acc.events, acc.invoked)
    ELSE LET r == ProcessSingleInput(c, texts[i])
             evs == acc.events \o r.events
             calls == acc.invoked \o r.invoked
         IN  IF r.raised THEN Raises(r.err, evs, calls)
             ELSE ProcessBatch(c, texts, i + 1,
                               [ret |-> Append(acc.ret, r.ret),
                                events |-> evs, invoked |-> calls])

\* line 87-98: v is inputs[self.input_key]
CallOutcome(c, v) ==
    IF c.batch_processing /\ v.type = "list"
    THEN ProcessBatch(c, v.val, 1,
                      [ret |-> NewResults, events |-> <<OnText("inputs", v)>>,
                       invoked |-> <<>>])
    ELSE LET r == ProcessSingleInput(c, v.val)
         IN  [r EXCEPT !.events = <<OnText("inputs", v)>> \o @]

-----------------------------------------------------------------------------
(* process_llm_results, line 151-170 *)

\* process_llm_results(Predict(t).out): the helper is given the model's
\* answer to text t
ProcessLLMResultsOutcome(c, t) ==
    LET m == LooseMatchOf[t]
    IN  IF ~m.found THEN Returns(PyDict(EmptyDict), <<>>, <<>>)
        ELSE LET label == Strip(m.label)
                 score == Strip(m.score)
             IN  IF ~FloatAccepts(score) THEN Raises(FloatError(score), <<>>, <<>>)
                 ELSE IF c.sentiment_label_mapping.type = "None"
                 THEN Raises(NoneGetError, <<>>, <<>>)
                 ELSE LET mapped == ApplyLabelMapping(c.sentiment_label_mapping.val, label)
                      IN  IF c.include_score
                          THEN Returns(PyDict(SentimentDict(mapped, Float(score))), <<>>, <<>>)
                          ELSE Returns(PyDict("sentiment_label" :> mapped), <<>>, <<>>)

-----------------------------------------------------------------------------
(* The inputs *)

\* the lists of texts of length at most n
ListsUpTo(n) == UNION {[1..k -> Texts] : k \in 0..n}

\* what a caller puts under input_key: one text, or a list of texts
Scalars == {PyStr(t) : t \in Texts}
Inputs == Scalars \cup {PyList(q) : q \in ListsUpTo(MaxBatch)}

\* the inputs of a chain that is called again and again
RerunLists == {<<"great", "so-so">>, <<"awful", "down", "great">>}
RerunInputs == Scalars \cup {PyList(q) : q \in RerunLists}

NoCall == [inputs |-> PyNone, raised |-> FALSE, ret |-> PyNone, err |-> NoError]

-----------------------------------------------------------------------------
(* The state machine *)

Init ==
    /\ \E by \in {"cls", "from_llm"}, args \in ConstructorArgs :
          /\ built = [by |-> by, args |-> args]
          /\ cfg = IF by = "cls" THEN Construct(args) ELSE FromLLM(args)
    /\ pc = "idle"
    /\ op = "none"
    /\ inputs = PyNone
    /\ ret = PyNone
    /\ err = NoError
    /\ invoked = <<>>
    /\ events = <<>>
    /\ first = NoCall

\* _call(inputs) with inputs[self.input_key] = v.  A list is given only to a
\* chain with batch_processing set.
DoCall(v) ==
    /\ pc = "idle"
    /\ v.type = "list" => cfg.batch_processing
    /\ LET r == CallOutcome(cfg, v)
       IN  /\ pc' = IF r.raised THEN "raised" ELSE "returned"
           /\ ret' = r.ret
           /\ err' = r.err
           /\ events' = r.events
           /\ invoked' = r.invoked
    /\ op' = "_call"
    /\ inputs' = v
    /\ UNCHANGED <<cfg, built, first>>

\* one call of _call on a chain
Call == \E v \in Inputs : DoCall(v)

\* process_llm_results(text), text the model's answer to some text t
ProcessLLMResults ==
    \E t \in Answered :
        /\ pc = "idle"
        /\ LET r == ProcessLLMResultsOutcome(cfg, t)
           IN  /\ pc' = IF r.raised THEN "raised" ELSE "returned"
               /\ ret' = r.ret
               /\ err' = r.err
        /\ op' = "process_llm_results"
        /\ inputs' = PyStr(Predict(t).out)
        /\ events' = <<>>
        /\ invoked' = <<>>
        /\ UNCHANGED <<cfg, built, first>>

Next == Call \/ ProcessLLMResults

Spec == Init /\ [][Next]_vars

\* one more call of _call on a chain that is called again and again
CallAgain == \E v \in RerunInputs : DoCall(v)

\* the caller takes the outcome of the call; the chain is ready for the next.
\* The first completed _call is recorded.
Return ==
    /\ pc \in {"returned", "raised"}
    /\ pc' = "idle"
    /\ first' = IF first.inputs.type = "None" /\ op = "_call"
                THEN [inputs |-> inputs, raised |-> pc = "raised", ret |-> ret, err |-> err]
                ELSE first
    /\ UNCHANGED <<cfg, built, op, inputs, ret, err, invoked, events>>

NextRerun == CallAgain \/ Return

SpecRerun == Init /\ [][NextRerun]_vars

-----------------------------------------------------------------------------
(* What the claims speak of *)

\* the substrings of s of the form "Sentiment: <label> (Score: <number>)",
\* <label> one or more word characters and <number> one or more digits and
\* dots: where each starts, its label and its number
Sentences(s) ==
    UNION {
        {[at |-> i,
          label |-> SubSeq(s, i + Len(SentimentLit), b),
          number |-> SubSeq(s, b + 1 + Len(ScoreLit), d)] :
            <<b, d>> \in {x \in (i + Len(SentimentLit) .. Len(s)) \X (i .. Len(s)) :
                /\ \A k \in i + Len(SentimentLit) .. x[1] : s[k] \in WordChars
                /\ HasAt(s, x[1] + 1, ScoreLit)
                /\ x[2] >= x[1] + 1 + Len(ScoreLit)
                /\ \A k \in x[1] + 1 + Len(ScoreLit) .. x[2] : s[k] \in DigitChars \cup {"."}
                /\ HasAt(s, x[2] + 1, CloseLit)}} :
        i \in {j \in 1..Len(s) : HasAt(s, j, SentimentLit)}}

\* the same for the model's answer to each text
SentencesOf == [t \in Answered |-> Sentences(Predict(t).out)]

\* the leftmost of them
Leftmost(t) == CHOOSE m \in SentencesOf[t] : \A o \in SentencesOf[t] : m.at <= o.at

\* a numeral: digits with at most one dot among them
IsNumeral(n) ==
    /\ \E i \in DOMAIN n : n[i] \in DigitChars
    /\ Cardinality({i \in DOMAIN n : n[i] = "."}) <= 1

\* a call of _call has ended
CallEnded == op = "_call" /\ pc \in {"returned", "raised"}

\* ... that was given one text, which the model answered
SingleAnswered == CallEnded /\ inputs.type = "str" /\ inputs.val \in Answered

\* ... that took the batch path of line 91-96
BatchCall == CallEnded /\ inputs.type = "list" /\ cfg.batch_processing

HasMapping == cfg.sentiment_label_mapping.type = "dict"

\* v is the dict {output_key: inner}
IsKeyed(v, inner) == v.type = "dict" /\ v.val = (cfg.output_key :> inner)

-----------------------------------------------------------------------------
(* C1 *)

\* C1 as stated: whenever the model's answer contains a sentence
\* "Sentiment: L (Score: s)" with a one-word label L and a numeral s, _call
\* on a chain with output_format "json", include_score set and an empty
\* label mapping returns exactly {output_key: {sentiment_label: L,
\* sentiment_score: s}} -- for every such sentence of the answer.
C1_AnySentence ==
    (/\ SingleAnswered
     /\ cfg.output_format = JsonFormat
     /\ cfg.include_score
     /\ HasMapping /\ cfg.sentiment_label_mapping.val = EmptyDict)
    => \A m \in SentencesOf[inputs.val] :
          IsNumeral(m.number)
          => /\ pc = "returned"
             /\ IsKeyed(ret, SentimentDict(m.label, Float(m.number)))

\* C1 amended: the same, for the leftmost sentence of the answer when its
\* number is a numeral.
C1_LeftmostSentence ==
    (/\ SingleAnswered
     /\ cfg.output_format = JsonFormat
     /\ cfg.include_score
     /\ HasMapping /\ cfg.sentiment_label_mapping.val = EmptyDict
     /\ SentencesOf[inputs.val] # {}
     /\ IsNumeral(Leftmost(inputs.val).number))
    => /\ pc = "returned"
       /\ IsKeyed(ret, SentimentDict(Leftmost(inputs.val).label,
                                     Float(Leftmost(inputs.val).number)))

\* the answer "OK. Sentiment: Negative (Score: 1) Sentiment: Positive
\* (Score: 0.5)" gave {"sentiment": {Negative, 1.0}}
C1_Witness ==
    /\ SingleAnswered
    /\ inputs.val = "awful"
    /\ cfg.output_format = JsonFormat
    /\ cfg.include_score
    /\ HasMapping /\ cfg.sentiment_label_mapping.val = EmptyDict
    /\ pc = "returned"
    /\ ret.type = "dict"
    /\ ret.val = ("sentiment" :> SentimentDict(Negative, [m |-> 1, e |-> 0]))

-----------------------------------------------------------------------------
(* C2 *)

\* C2: on a chain with include_score unset, a result that _call returns for
\* an answer with a sentence has the field sentiment_label and has no field
\* sentiment_score.
C2_ScoreOmitted ==
    (/\ SingleAnswered
     /\ ~cfg.include_score
     /\ SentencesOf[inputs.val] # {}
     /\ pc = "returned"
     /\ ret.type = "dict")
    => DOMAIN ret.val[cfg.output_key] = {"sentiment_label"}

-----------------------------------------------------------------------------
(* C3 *)

\* C3: on a chain (one that has a label mapping) whose output_format,
\* lowered, is neither "json" nor "text", _call ends with the error that
\* names the format, whatever the model answered, and returns no result.
C3_UnrecognizedFormatFails ==
    (/\ SingleAnswered
     /\ HasMapping
     /\ Lower(cfg.output_format) \notin {JsonFormat, TextFormat})
    => /\ pc = "raised"
       /\ err = UnsupportedFormat(cfg.output_format)

-----------------------------------------------------------------------------
(* C4 *)

\* C4: when the model's answer has no sentence, _call does not raise and
\* returns {output_key: {}}.
C4_NoSentenceEmptyResult ==
    (SingleAnswered /\ SentencesOf[inputs.val] = {})
    => /\ pc = "returned"
       /\ err = NoError
       /\ IsKeyed(ret, EmptyDict)

\* the answer "Sentiment: Mixed feelings (Score: 0.5)" gave {"sentiment": {}}
\* on a chain with an unrecognized format
C4_Witness ==
    /\ SingleAnswered
    /\ inputs.val = "so-so"
    /\ Lower(cfg.output_format) \notin {JsonFormat, TextFormat}
    /\ pc = "returned"
    /\ ret.type = "dict"
    /\ ret.val = ("sentiment" :> EmptyDict)

-----------------------------------------------------------------------------
(* C5 *)

\* C5: in a batch, when the model fails for an element, the model is still
\* invoked for every element after it, and the result of every other element
\* for which the procedure for one text returns is among the results that
\* _call returns.
C5_FailureIsolated ==
    BatchCall
    => \A i \in DOMAIN inputs.val :
          ~Predict(inputs.val[i]).ok
          => /\ \A j \in (i + 1) .. Len(inputs.val) :
                    j <= Len(invoked) /\ invoked[j] = inputs.val[j]
             /\ \A k \in DOMAIN inputs.val :
                    ~ProcessSingleInput(cfg, inputs.val[k]).raised
                    => /\ pc = "returned"
                       /\ ret.type = "list"
                       /\ \E p \in DOMAIN ret.val :
                             ret.val[p] = ProcessSingleInput(cfg, inputs.val[k]).ret

-----------------------------------------------------------------------------
(* C6 *)

\* C6: a batch of n texts (on a chain that has a label mapping) returns a
\* list of exactly n entries, and entry k is the result that the procedure for
\* one text gives for text k, whatever becomes of the other elements.
C6_BatchLengthOrder ==
    (BatchCall /\ HasMapping)
    => /\ pc = "returned" => ret.type = "list" /\ Len(ret.val) = Len(inputs.val)
       /\ \A k \in DOMAIN inputs.val :
             ~ProcessSingleInput(cfg, inputs.val[k]).raised
             => /\ pc = "returned"
                /\ ret.type = "list"
                /\ Len(ret.val) = Len(inputs.val)
                /\ ret.val[k] = ProcessSingleInput(cfg, inputs.val[k]).ret

\* The part of C6 that the code keeps: a batch in which the procedure raises
\* for no element returns n entries in order, an element whose answer has no
\* sentence giving {output_key: {}} at its own position.
C6_WhenNoElementRaises ==
    (/\ BatchCall
     /\ \A k \in DOMAIN inputs.val : ~ProcessSingleInput(cfg, inputs.val[k]).raised)
    => /\ pc = "returned"
       /\ ret.type = "list"
       /\ Len(ret.val) = Len(inputs.val)
       /\ \A k \in DOMAIN inputs.val :
             /\ ret.val[k] = ProcessSingleInput(cfg, inputs.val[k]).ret
             /\ SentencesOf[inputs.val[k]] = {} => IsKeyed(ret.val[k], EmptyDict)

-----------------------------------------------------------------------------
(* C7 *)

\* the label that the result v for one text carries is l: v is
\* {output_key: {sentiment_label: l, ...}} or the string
\* "Sentiment Label: <l>\nSentiment Score: ..."
CarriesLabel(v, l) ==
    IF v.type = "dict"
    THEN /\ DOMAIN v.val = {cfg.output_key}
         /\ "sentiment_label" \in DOMAIN v.val[cfg.output_key]
         /\ v.val[cfg.output_key]["sentiment_label"] = l
    ELSE /\ v.type = "str"
         /\ HasAt(v.val, 1, LabelLineLit \o l \o ScoreLineLit)

\* the label M maps L to, M applied once
MappedOnce(M, L) == IF L \in DOMAIN M THEN M[L] ELSE L

\* the result v that _call returned for text t carries the label extracted
\* from the model's answer to t (that of its leftmost sentence), mapped once
LabelMappedOnce(v, t) ==
    (t \in Answered /\ SentencesOf[t] # {})
    => CarriesLabel(v, MappedOnce(cfg.sentiment_label_mapping.val, Leftmost(t).label))

\* C7: with a label mapping M, the label in every result that _call returns
\* is M[L] when the extracted label L is a key of M and L itself when it is
\* not; a mapped value that is itself a key of M is not mapped again.
C7_LabelMappedOnce ==
    (op = "_call" /\ pc = "returned" /\ HasMapping)
    => IF cfg.batch_processing /\ inputs.type = "list"
       THEN \A k \in DOMAIN inputs.val : LabelMappedOnce(ret.val[k], inputs.val[k])
       ELSE LabelMappedOnce(ret, inputs.val)

\* with {Positive: Negative, Negative: NEG}, the answer "Sentiment: Positive
\* (Score: 0.87)" gave the label Negative, not NEG
C7_Witness ==
    /\ SingleAnswered
    /\ inputs.val = "great"
    /\ HasMapping
    /\ cfg.sentiment_label_mapping.val = (Positive :> Negative) @@ (Negative :> NEG)
    /\ pc = "returned"
    /\ ret.type = "dict"
    /\ ret.val[cfg.output_key]["sentiment_label"] = Negative

-----------------------------------------------------------------------------
(* C8 *)

\* C8: on a chain whose output_format is "text", _call returns, for every
\* answer with a sentence, exactly the string "Sentiment Label: <label>\n
\* Sentiment Score: <score>", the label that of the sentence (mapped, when the
\* chain has a mapping with that key) and the score its number parsed.
C8_TextFormat ==
    (/\ SingleAnswered
     /\ Lower(cfg.output_format) = TextFormat
     /\ SentencesOf[inputs.val] # {})
    => /\ pc = "returned"
       /\ ret.type = "str"
       /\ ret.val =
            LabelLineLit
            \o (IF HasMapping
                THEN MappedOnce(cfg.sentiment_label_mapping.val,
                                Leftmost(inputs.val).label)
                ELSE Leftmost(inputs.val).label)
            \o ScoreLineLit
            \o FloatStr(Float(Leftmost(inputs.val).number))

\* The part of C8 that the code keeps: the same on a chain that has a label
\* mapping, when the number of the leftmost sentence is a numeral.
C8_WithMappingAndNumeral ==
    (/\ SingleAnswered
     /\ Lower(cfg.output_format) = TextFormat
     /\ HasMapping
     /\ SentencesOf[inputs.val] # {}
     /\ IsNumeral(Leftmost(inputs.val).number))
    => /\ pc = "returned"
       /\ ret.type = "str"
       /\ ret.val =
            LabelLineLit
            \o MappedOnce(cfg.sentiment_label_mapping.val, Leftmost(inputs.val).label)
            \o ScoreLineLit
            \o FloatStr(Float(Leftmost(inputs.val).number))

-----------------------------------------------------------------------------
(* C9 *)

\* C9: however often the chain has been called, its fields are those it was
\* constructed with, and a call with the input of the first call ends as the
\* first call ended: the same value returned, or the same error raised.
C9_Idempotent ==
    /\ cfg = IF built.by = "cls" THEN Construct(built.args) ELSE FromLLM(built.args)
    /\ (/\ CallEnded
        /\ first.inputs.type = inputs.type
        /\ first.inputs.val = inputs.val)
       => /\ first.raised = (pc = "raised")
          /\ first.err = err
          /\ first.ret.type = ret.type
          /\ first.ret = ret

\* a batch was run, other calls or none came between, and the same batch was
\* run again and returned
C9_Witness ==
    /\ CallEnded
    /\ pc = "returned"
    /\ inputs.type = "list"
    /\ first.inputs.type = "list"
    /\ first.inputs.val = inputs.val
    /\ Len(inputs.val) = 2
    /\ first.ret = ret

-----------------------------------------------------------------------------
(* C10 *)

\* the chain with an empty label mapping in place of its own
WithEmptyMapping == [cfg EXCEPT !["sentiment_label_mapping"] = PyDict(EmptyDict)]

\* C10: a chain built by from_llm without sentiment_label_mapping behaves as
\* a chain with an empty mapping: for an answer with a sentence _call ends as
\* it does on that chain, and when it returns there the label is the
\* extracted one, unchanged.
C10_FromLLMDefaultMapping ==
    (/\ SingleAnswered
     /\ built.by = "from_llm"
     /\ "sentiment_label_mapping" \notin DOMAIN built.args
     /\ SentencesOf[inputs.val] # {})
    => LET r == CallOutcome(WithEmptyMapping, inputs)
       IN  /\ r.raised = (pc = "raised")
           /\ r.err = err
           /\ r.ret.type = ret.type
           /\ r.ret = ret
           /\ ~r.raised => CarriesLabel(ret, Leftmost(inputs.val).label)

====
